---- MODULE Spec2Model ----
(***************************************************************************)
(* Account reconciliation of the firebase-auth backend:                    *)
(*   services/accountLinkService.ts  (checkAndLinkAccounts, linkAccounts,  *)
(*                                    the verification code store)         *)
(*   services/userSearchService.ts   (getEmailFromUser, findUserByEmail)   *)
(*   controllers/authController.ts   (sendVerification, addPassword)       *)
(*   services/socialAuthService (pre-flight checkSocialAuthConflict)       *)
(* The identity backend (firebase-admin auth) is the environment: its      *)
(* calls are modelled at the call sites by what they return and change.    *)
(***************************************************************************)
EXTENDS Integers, Sequences, FiniteSets, TLC

(* ------------------------------ bounds -------------------------------- *)
\* the clock advances in steps of TickMs, at most MaxTicks times
MaxTicks == 3
TickMs == 150000
\* const CODE_EXPIRY_MS = 5 * 60 * 1000
CODE_EXPIRY_MS == 300000

(* ------------------------------ values -------------------------------- *)
Uids == {"u1", "u2", "u3"}
\* auth.listUsers enumerates the accounts in a stable order
UidOrder == <<"u1", "u2", "u3">>
\* metadata.creationTime: u1 was created first, u3 last
CreatedAt(u) == CASE u = "u1" -> 1 [] u = "u2" -> 2 [] OTHER -> 3
Procs == {1, 2}

NoUid == "none"
NoEmail == "none"
NoPassword == "none"
NoToken == "none"

E1 == "u@x.com"
E1U == "U@x.com"
E2 == "v@y.com"
Emails == {E1, E1U, E2}
\* String.prototype.toLowerCase on the e-mail addresses of the model
Lower(e) == IF e = E1U THEN E1 ELSE e

Codes == {"111111", "222222"}
Passwords == {"pwNew"}
OldPassword == "pwOld"

(* provider records: { providerId, uid, email } *)
PasswordRecord(e) == [providerId |-> "password", uid |-> e, email |-> e]
Google1 == [providerId |-> "google.com", uid |-> "g1", email |-> E1]
Google2 == [providerId |-> "google.com", uid |-> "g2", email |-> NoEmail]
Facebook1 == [providerId |-> "facebook.com", uid |-> "f1", email |-> E1]
Facebook2 == [providerId |-> "facebook.com", uid |-> "f2", email |-> E1U]
Microsoft2 == [providerId |-> "microsoft.com", uid |-> "m2", email |-> E2]
SocialProviders == {"google.com", "facebook.com", "microsoft.com"}

NoUser == [exists |-> FALSE, uid |-> NoUid, email |-> NoEmail,
           providerData |-> <<>>, password |-> NoPassword]

UserRecord(u, e, pd, pw) ==
  [exists |-> TRUE, uid |-> u, email |-> e, providerData |-> pd, password |-> pw]

(* ------------------------ userSearchService.ts ------------------------- *)
\* mutant: the last provider record with an email is taken
RECURSIVE FirstProviderEmailLast(_, _)
FirstProviderEmailLast(pd, i) ==
  IF i > Len(pd) THEN NoEmail
  ELSE LET rest == FirstProviderEmailLast(pd, i + 1) IN
       IF rest # NoEmail THEN rest ELSE pd[i].email

RECURSIVE FirstProviderEmail(_, _)
FirstProviderEmail(pd, i) ==
  IF i > Len(pd) THEN NoEmail
  ELSE IF pd[i].email # NoEmail THEN pd[i].email
  ELSE FirstProviderEmail(pd, i + 1)

getEmailFromUser(user) ==
  IF user.email # NoEmail THEN user.email
  ELSE FirstProviderEmail(user.providerData, 1)

ProviderIds(user) == {user.providerData[i].providerId : i \in 1..Len(user.providerData)}

hasPassword(user) == "password" \in ProviderIds(user)
hasSocial(user) == \E p \in ProviderIds(user) : p # "password"

\* auth.getUserByEmail: the account whose top-level email is the address
\* (the backend stores and compares addresses lower-cased), or not found
GetUserByEmail(accts, email) ==
  IF \E u \in Uids : accts[u].exists /\ accts[u].email = Lower(email)
  THEN CHOOSE u \in Uids : accts[u].exists /\ accts[u].email = Lower(email)
  ELSE NoUid

\* mutant: the enumeration compares the top-level email only
RECURSIVE ListScanTopLevel(_, _, _, _)
ListScanTopLevel(accts, email, excludeUid, i) ==
  IF i > Len(UidOrder) THEN NoUid
  ELSE LET u == UidOrder[i] IN
    IF ~accts[u].exists \/ (excludeUid # NoUid /\ u = excludeUid)
    THEN ListScanTopLevel(accts, email, excludeUid, i + 1)
    ELSE IF accts[u].email = email THEN u
    ELSE ListScanTopLevel(accts, email, excludeUid, i + 1)

RECURSIVE ListScan(_, _, _, _)
ListScan(accts, email, excludeUid, i) ==
  IF i > Len(UidOrder) THEN NoUid
  ELSE LET u == UidOrder[i] IN
    IF ~accts[u].exists \/ (excludeUid # NoUid /\ u = excludeUid)
    THEN ListScan(accts, email, excludeUid, i + 1)
    ELSE IF getEmailFromUser(accts[u]) = email THEN u
    ELSE ListScan(accts, email, excludeUid, i + 1)

\* mutant: the direct lookup's account is returned even when it is excludeUid
DirectHitIgnoresExclude(d, excludeUid) == d # NoUid

DirectHit(d, excludeUid) == d # NoUid /\ (excludeUid = NoUid \/ d # excludeUid)

findUserByEmail(accts, email, excludeUid) ==
  LET d == GetUserByEmail(accts, email) IN
  IF DirectHit(d, excludeUid) THEN d ELSE ListScan(accts, email, excludeUid, 1)

(* ------------------------------ state --------------------------------- *)
VARIABLES
  accounts,   \* the backend's accounts: uid -> UserRecord or NoUser
  codeStore,  \* the verification code map: lower-cased email -> StoredCode
  now,        \* Date.now()
  pc,         \* per request: the await checkAndLinkAccounts is suspended at
  req,        \* per request: the locals of checkAndLinkAccounts/linkAccounts
  result,     \* per request: the LinkResult returned
  calls,      \* per request: the backend calls made, in order
  atStart,    \* per request: the backend's accounts when the request arrived
  resp,       \* the last response of sendVerification/addPassword
  consumed,   \* per store key: successful verifyCode calls since the last storeCode
  social,     \* the last result of checkSocialAuthConflict
  users       \* the profile table: rows { firebaseUid, email }

vars == <<accounts, codeStore, now, pc, req, result, calls, atStart, resp, consumed, social,
         users>>

(* ------------------------- initial accounts --------------------------- *)
Profiles(u) ==
  {NoUser}
  \* auth.createUser({ email }) whose provider link then failed: a top-level
  \* email and no provider record
  \cup {UserRecord(u, E1, <<>>, NoPassword)}
  \cup {UserRecord(u, E1, pd, OldPassword) :
          pd \in {<<PasswordRecord(E1)>>, <<PasswordRecord(E1), Google1>>}}
  \cup {UserRecord(u, NoEmail, pd, NoPassword) :
          pd \in {<<Google1>>, <<Google2>>, <<Facebook1>>, <<Facebook2>>,
                  <<Google1, Facebook1>>, <<Google2, Facebook2>>, <<Microsoft2>>}}

Identities(user) ==
  {<<user.providerData[i].providerId, user.providerData[i].uid>> :
     i \in 1..Len(user.providerData)}

\* the backend keeps a provider identity on one account and a top-level
\* email on one account
ValidAccounts(accts) ==
  \A u, v \in Uids : u # v =>
    /\ Identities(accts[u]) \cap Identities(accts[v]) = {}
    /\ accts[u].email = NoEmail \/ accts[u].email # accts[v].email

InitialAccounts ==
  {accts \in [Uids -> UNION {Profiles(u) : u \in Uids}] :
     /\ \A u \in Uids : accts[u] \in Profiles(u)
     /\ ValidAccounts(accts)}

(* ---------------------- request-local records -------------------------- *)
NoResult ==
  [success |-> FALSE, linked |-> FALSE, needsVerification |-> FALSE,
   customToken |-> NoToken, providers |-> <<>>, email |-> NoEmail,
   message |-> "none"]

\* mutant: a result never reports linked
LinkResultNeverLinked(success, linked, message) ==
  [NoResult EXCEPT !.success = success, !.message = message]

LinkResult(success, linked, message) ==
  [NoResult EXCEPT !.success = success, !.linked = linked, !.message = message]

NoReq ==
  [uid |-> NoUid, user |-> NoUser, email |-> NoEmail, dup |-> NoUser,
   linkType |-> "none", source |-> NoUid, target |-> NoUid,
   toLink |-> <<>>, i |-> 1, attempt |-> 1, currentLive |-> FALSE,
   fault |-> "none"]

NoCode == [code |-> "none", expiresAt |-> 0]
\* the keys a Map<string, StoredCode> can hold in the model
Keys == Emails

NoResp == [op |-> "none", email |-> NoEmail, code |-> "none", status |-> 0]

NoSocial ==
  [provider |-> "none", email |-> NoEmail, action |-> "none",
   customToken |-> NoToken, existingUid |-> NoUid]

Call(op, uid, providerId, ok) ==
  [op |-> op, uid |-> uid, providerId |-> providerId, ok |-> ok]

Init ==
  /\ accounts \in InitialAccounts
  /\ codeStore = [k \in Keys |-> NoCode]
  /\ now = 0
  /\ pc = [p \in Procs |-> "idle"]
  /\ req = [p \in Procs |-> NoReq]
  /\ result = [p \in Procs |-> NoResult]
  /\ calls = [p \in Procs |-> <<>>]
  /\ atStart = [p \in Procs |-> [u \in Uids |-> NoUser]]
  /\ resp = NoResp
  /\ consumed = [k \in Keys |-> 0]
  /\ social = NoSocial
  /\ users = {}

(* ---------------- accountLinkService.ts: checkAndLinkAccounts ---------- *)
\* a return statement of checkAndLinkAccounts
Return(p, r) ==
  /\ result' = [result EXCEPT ![p] = r]
  /\ pc' = [pc EXCEPT ![p] = "done"]

\* mutant: the catch answers success
ThrowSwallowed(p, message) == Return(p, LinkResult(TRUE, FALSE, message))

\* catch (error): { success: false, linked: false, message: error.message }
Throw(p, message) == Return(p, LinkResult(FALSE, FALSE, message))

Log(p, c) == calls' = [calls EXCEPT ![p] = Append(@, c)]

\* POST /check-link { currentUserUid }
Start(p, u) ==
  /\ pc[p] \in {"idle", "done"}
  /\ pc' = [pc EXCEPT ![p] = "getUser"]
  /\ req' = [req EXCEPT ![p] = [NoReq EXCEPT !.uid = u]]
  /\ result' = [result EXCEPT ![p] = NoResult]
  /\ calls' = [calls EXCEPT ![p] = <<>>]
  /\ atStart' = [atStart EXCEPT ![p] = accounts]
  /\ UNCHANGED <<accounts, codeStore, now, resp, consumed, social, users>>

\* const currentUser = await auth.getUser(currentUserUid); the email check
GetUser(p) ==
  /\ pc[p] = "getUser"
  /\ LET user == accounts[req[p].uid]
         email == getEmailFromUser(user) IN
     /\ Log(p, Call("getUser", req[p].uid, "none", user.exists))
     /\ IF ~user.exists
        THEN /\ Throw(p, "auth/user-not-found")
             /\ req' = [req EXCEPT ![p].fault = "getUser"]
        ELSE IF email = NoEmail
        THEN /\ Return(p, LinkResult(TRUE, FALSE, "No email to check for link"))
             /\ req' = [req EXCEPT ![p].user = user]
        ELSE /\ req' = [req EXCEPT ![p].user = user, ![p].email = email]
             /\ pc' = [pc EXCEPT ![p] = "getUserByEmail"]
             /\ UNCHANGED result
  /\ UNCHANGED <<atStart, accounts, codeStore, now, resp, consumed, social, users>>

\* mutant: the password-into-social case is not recognised
LinkCaseNoVerification(current, duplicate) ==
  IF ~hasPassword(current) /\ hasPassword(duplicate)
  THEN "social-into-password"
  ELSE IF /\ ~hasPassword(current) /\ hasSocial(current)
          /\ ~hasPassword(duplicate) /\ hasSocial(duplicate)
  THEN "social-into-social"
  ELSE "none"

\* mutant: CASE 3 does not ask whether the current account has a social provider
LinkCaseSocialUnchecked(current, duplicate) ==
  IF ~hasPassword(current) /\ hasPassword(duplicate)
  THEN "social-into-password"
  ELSE IF hasPassword(current) /\ ~hasPassword(duplicate) /\ hasSocial(duplicate)
  THEN "password-into-social"
  ELSE IF ~hasPassword(current) /\ ~hasPassword(duplicate) /\ hasSocial(duplicate)
  THEN "social-into-social"
  ELSE "none"

\* the three cases of checkAndLinkAccounts, in the order the code tests them
LinkCase(current, duplicate) ==
  IF ~hasPassword(current) /\ hasPassword(duplicate)
  THEN "social-into-password"
  ELSE IF hasPassword(current) /\ ~hasPassword(duplicate) /\ hasSocial(duplicate)
  THEN "password-into-social"
  ELSE IF /\ ~hasPassword(current) /\ hasSocial(current)
          /\ ~hasPassword(duplicate) /\ hasSocial(duplicate)
  THEN "social-into-social"
  ELSE "none"

\* mutant: the password record is not filtered out
providersToLinkUnfiltered(sourceUser) == sourceUser.providerData

\* sourceUser.providerData.filter(p => p.providerId !== 'password')
\*   .map(p => ({ providerId: p.providerId, uid: p.uid }))
NotPassword(rec) == rec.providerId # "password"
providersToLink(sourceUser) == SelectSeq(sourceUser.providerData, NotPassword)

\* mutant: the providers are linked first and the source deleted afterwards
LinkFlowAttachFirst(at, left) ==
  CASE at = "entry" -> IF left > 0 THEN "link" ELSE "deleteSource"
    [] at \in {"link", "linkFailed"} -> IF left > 0 THEN "link" ELSE "deleteSource"
    [] at = "deleteSource" -> "token"

\* mutant: a rejected providerToLink ends the loop
LinkFlowStopsAtFailure(at, left) ==
  CASE at = "entry" -> "deleteSource"
    [] at = "deleteSource" -> IF left > 0 THEN "link" ELSE "token"
    [] at = "link" -> IF left > 0 THEN "link" ELSE "token"
    [] at = "linkFailed" -> "token"

\* mutant: the token is minted right after the deletion
LinkFlowTokenBeforeLinks(at, left) ==
  CASE at = "entry" -> "deleteSource"
    [] at = "deleteSource" -> "token"
    [] at \in {"link", "linkFailed"} -> "token"

\* the order of the backend calls of linkAccounts: the await that follows
\* `at`, with `left` providers still to link; "linkFailed" is the catch
\* inside the loop, which logs and goes on with the next provider
LinkFlow(at, left) ==
  CASE at = "entry" -> "deleteSource"
    [] at = "deleteSource" -> IF left > 0 THEN "link" ELSE "token"
    [] at = "link" -> IF left > 0 THEN "link" ELSE "token"
    [] at = "linkFailed" -> IF left > 0 THEN "link" ELSE "token"

\* mutant: the duplicate is merged into the current account
LinkArgsSwapped(currentUid, duplicate) == [source |-> duplicate.uid, target |-> currentUid]

\* which account linkAccounts deletes and which it keeps:
\* linkAccounts(currentUserUid, duplicateAccount.uid, currentUser, ...)
LinkArgs(currentUid, duplicate) == [source |-> currentUid, target |-> duplicate.uid]

\* after findUserByEmail returned duplicateAccount: classify and branch
Decide(p, duplicate) ==
  LET kind == LinkCase(req[p].user, duplicate)
      args == LinkArgs(req[p].uid, duplicate)
      toLink == providersToLink(req[p].user)
      live == accounts[req[p].uid].exists IN
  IF kind \in {"social-into-password", "social-into-social"}
  THEN /\ req' = [req EXCEPT ![p].dup = duplicate, ![p].linkType = kind,
                             ![p].currentLive = live,
                             ![p].source = args.source, ![p].target = args.target,
                             ![p].toLink = toLink, ![p].i = 1]
       /\ pc' = [pc EXCEPT ![p] = LinkFlow("entry", Len(toLink))]
       /\ UNCHANGED result
  ELSE IF kind = "password-into-social"
  THEN /\ req' = [req EXCEPT ![p].dup = duplicate, ![p].linkType = kind,
                             ![p].currentLive = live]
       /\ pc' = [pc EXCEPT ![p] = "deletePassword"]
       /\ UNCHANGED result
  ELSE /\ req' = [req EXCEPT ![p].dup = duplicate, ![p].currentLive = live]
       /\ Return(p, LinkResult(TRUE, FALSE, "No link scenario matched"))

\* findUserByEmail: const user = await auth.getUserByEmail(email)
FindDirect(p) ==
  /\ pc[p] = "getUserByEmail"
  /\ LET d == GetUserByEmail(accounts, req[p].email) IN
     /\ Log(p, Call("getUserByEmail", d, "none", d # NoUid))
     /\ IF DirectHit(d, req[p].uid)
        THEN Decide(p, accounts[d])
        ELSE /\ pc' = [pc EXCEPT ![p] = "listUsers"]
             /\ UNCHANGED <<req, result>>
  /\ UNCHANGED <<atStart, accounts, codeStore, now, resp, consumed, social, users>>

\* findUserByEmail: const listResult = await auth.listUsers(1000); the scan
FindByList(p) ==
  /\ pc[p] = "listUsers"
  /\ LET d == ListScan(accounts, req[p].email, req[p].uid, 1) IN
     /\ Log(p, Call("listUsers", d, "none", TRUE))
     /\ IF d = NoUid
        THEN /\ Return(p, LinkResult(TRUE, FALSE, "No other account found to link with"))
             /\ UNCHANGED req
        ELSE Decide(p, accounts[d])
  /\ UNCHANGED <<atStart, accounts, codeStore, now, resp, consumed, social, users>>

\* auth.deleteUser(uid): rejects with auth/user-not-found for a missing account
DeleteUser(accts, uid) == [accts EXCEPT ![uid] = NoUser]

\* handlePasswordToSocialLink: await auth.deleteUser(passwordUid); return
DeletePassword(p) ==
  /\ pc[p] = "deletePassword"
  /\ LET uid == req[p].uid
         ok == accounts[uid].exists
         socialProviders == providersToLink(req[p].dup) IN
     /\ Log(p, Call("deleteUser", uid, "none", ok))
     /\ IF ok
        THEN /\ accounts' = DeleteUser(accounts, uid)
             /\ Return(p, [NoResult EXCEPT
                  !.success = TRUE, !.needsVerification = TRUE,
                  !.providers = [i \in 1..Len(socialProviders) |->
                                   socialProviders[i].providerId],
                  !.email = req[p].email,
                  !.message = "Please verify your email to add a password"])
        ELSE Throw(p, "auth/user-not-found") /\ UNCHANGED accounts
  /\ UNCHANGED <<atStart, codeStore, now, req, resp, consumed, social, users>>

\* linkAccounts: await auth.deleteUser(sourceUid)
DeleteSource(p) ==
  /\ pc[p] = "deleteSource"
  /\ LET uid == req[p].source
         ok == accounts[uid].exists IN
     /\ Log(p, Call("deleteUser", uid, "none", ok))
     /\ IF ok
        THEN /\ accounts' = DeleteUser(accounts, uid)
             /\ pc' = [pc EXCEPT ![p] =
                  LinkFlow("deleteSource", Len(req[p].toLink) - req[p].i + 1)]
             /\ UNCHANGED result
        ELSE Throw(p, "auth/user-not-found") /\ UNCHANGED accounts
  /\ UNCHANGED <<atStart, codeStore, now, req, resp, consumed, social, users>>

\* auth.updateUser(targetUid, { providerToLink }): rejected when the target
\* is missing, when the identity is still held by an account, or when the
\* target already has a record of that provider
CanAttach(accts, target, provider) ==
  /\ accts[target].exists
  /\ \A u \in Uids : <<provider.providerId, provider.uid>> \notin Identities(accts[u])
  /\ provider.providerId \notin ProviderIds(accts[target])

\* mutant: the attached record replaces the target's records
AttachProviderReplaces(accts, target, provider) ==
  [accts EXCEPT ![target].providerData =
     <<[providerId |-> provider.providerId, uid |-> provider.uid,
        email |-> NoEmail]>>]

AttachProvider(accts, target, provider) ==
  [accts EXCEPT ![target].providerData =
     Append(@, [providerId |-> provider.providerId, uid |-> provider.uid,
                email |-> NoEmail])]

\* linkAccounts: one iteration of for (const provider of providersToLink)
LinkProvider(p) ==
  /\ pc[p] = "link"
  /\ req[p].i <= Len(req[p].toLink)
  /\ LET provider == req[p].toLink[req[p].i]
         ok == CanAttach(accounts, req[p].target, provider) IN
     /\ Log(p, Call("updateUser", req[p].target, provider.providerId, ok))
     /\ accounts' = IF ok THEN AttachProvider(accounts, req[p].target, provider)
                    ELSE accounts
     /\ req' = [req EXCEPT ![p].i = @ + 1]
     /\ pc' = [pc EXCEPT ![p] = LinkFlow(IF ok THEN "link" ELSE "linkFailed",
                                         Len(req[p].toLink) - req[p].i)]
  /\ UNCHANGED <<atStart, codeStore, now, result, resp, consumed, social, users>>

\* the backend rejects a call for a reason of its own (network, quota,
\* internal error): the rejection of a lookup reaches the catch of
\* checkAndLinkAccounts
LookupFails(p, at, op, uid) ==
  /\ pc[p] = at
  /\ Log(p, Call(op, uid, "none", FALSE))
  /\ Throw(p, "auth/internal-error")
  /\ req' = [req EXCEPT ![p].fault = op]
  /\ UNCHANGED <<atStart, accounts, codeStore, now, resp, consumed, social, users>>

GetUserFails(p) == LookupFails(p, "getUser", "getUser", req[p].uid)
\* findUserByEmail rethrows what is not auth/user-not-found
FindDirectFails(p) == LookupFails(p, "getUserByEmail", "getUserByEmail", NoUid)
FindByListFails(p) == LookupFails(p, "listUsers", "listUsers", NoUid)

\* a providerToLink call rejected for a reason of its own: caught in the loop
LinkProviderFails(p) ==
  /\ pc[p] = "link"
  /\ req[p].i <= Len(req[p].toLink)
  /\ Log(p, Call("updateUser", req[p].target, req[p].toLink[req[p].i].providerId, FALSE))
  /\ req' = [req EXCEPT ![p].i = @ + 1]
  /\ pc' = [pc EXCEPT ![p] = LinkFlow("linkFailed", Len(req[p].toLink) - req[p].i)]
  /\ UNCHANGED <<atStart, accounts, codeStore, now, result, resp, consumed, social, users>>

\* linkAccounts: const customToken = await auth.createCustomToken(targetUid)
CreateToken(p) ==
  /\ pc[p] = "token"
  /\ Log(p, Call("createCustomToken", req[p].target, "none", TRUE))
  /\ Return(p, [LinkResult(TRUE, TRUE,
                  IF req[p].linkType = "social-into-password"
                  THEN "Social account linked into password account"
                  ELSE "Social accounts linked")
                EXCEPT !.customToken = req[p].target])
  /\ UNCHANGED <<atStart, accounts, codeStore, now, req, resp, consumed, social, users>>

\* the awaits of one request
Steps(p) ==
  \/ GetUser(p)
  \/ FindDirect(p)
  \/ FindByList(p)
  \/ DeletePassword(p)
  \/ DeleteSource(p)
  \/ LinkProvider(p)
  \/ CreateToken(p)

\* requests served one after the other
CheckAndLinkAccounts(p) ==
  \/ \E u \in Uids : Start(p, u)
  \/ Steps(p)

\* a single request
OneRequest(p) ==
  \/ pc[p] = "idle" /\ \E u \in Uids : Start(p, u)
  \/ Steps(p)

\* a second call of linkAccounts with the arguments of a finished merge
\* (a retry of the merge step for the same source and target)
RetryLink(p) ==
  /\ pc[p] = "done"
  /\ result[p].linked
  /\ req[p].attempt = 1
  /\ req' = [req EXCEPT ![p].i = 1, ![p].attempt = 2]
  /\ pc' = [pc EXCEPT ![p] = LinkFlow("entry", Len(req[p].toLink))]
  /\ result' = [result EXCEPT ![p] = NoResult]
  /\ calls' = [calls EXCEPT ![p] = <<>>]
  /\ UNCHANGED <<atStart, accounts, codeStore, now, resp, consumed, social, users>>

\* linkAccounts(sourceUid, targetUid, sourceUser, linkType) called on its own,
\* for any two accounts and the source's record as the caller read it
LinkAccountsCall(p, sourceUid, targetUid, linkType) ==
  /\ pc[p] \in {"idle", "done"}
  /\ sourceUid # targetUid
  /\ accounts[sourceUid].exists /\ accounts[targetUid].exists
  /\ LET sourceUser == accounts[sourceUid]
         toLink == providersToLink(sourceUser) IN
     /\ req' = [req EXCEPT ![p] =
          [NoReq EXCEPT !.uid = sourceUid, !.user = sourceUser,
                        !.email = getEmailFromUser(sourceUser),
                        !.dup = accounts[targetUid], !.linkType = linkType,
                        !.currentLive = TRUE,
                        !.source = sourceUid, !.target = targetUid,
                        !.toLink = toLink]]
     /\ pc' = [pc EXCEPT ![p] = LinkFlow("entry", Len(toLink))]
  /\ result' = [result EXCEPT ![p] = NoResult]
  /\ calls' = [calls EXCEPT ![p] = <<>>]
  /\ atStart' = [atStart EXCEPT ![p] = accounts]
  /\ UNCHANGED <<accounts, codeStore, now, resp, consumed, social, users>>

(* ------------- accountLinkService.ts: verification code store ---------- *)
\* mutant: an entry that is present is not overwritten
storeCodeKeepsPrior(store, t, email, code) ==
  IF store[Lower(email)] # NoCode THEN store
  ELSE [store EXCEPT ![Lower(email)] = [code |-> code, expiresAt |-> t + CODE_EXPIRY_MS]]

\* codeStore.set(email.toLowerCase(), { code, expiresAt: Date.now() + CODE_EXPIRY_MS })
storeCode(store, t, email, code) ==
  [store EXCEPT ![Lower(email)] = [code |-> code, expiresAt |-> t + CODE_EXPIRY_MS]]

\* mutant: a valid code is not removed
verifyCodeKeepsEntry(store, t, email, code) ==
  LET normalizedEmail == Lower(email)
      stored == store[normalizedEmail] IN
  IF stored = NoCode THEN [ok |-> FALSE, store |-> store]
  ELSE IF t > stored.expiresAt
  THEN [ok |-> FALSE, store |-> [store EXCEPT ![normalizedEmail] = NoCode]]
  ELSE IF stored.code # code THEN [ok |-> FALSE, store |-> store]
  ELSE [ok |-> TRUE, store |-> store]

\* mutant: the entry counts as expired at expiresAt already
verifyCodeExpiryInclusive(store, t, email, code) ==
  LET normalizedEmail == Lower(email)
      stored == store[normalizedEmail] IN
  IF stored = NoCode THEN [ok |-> FALSE, store |-> store]
  ELSE IF t >= stored.expiresAt
  THEN [ok |-> FALSE, store |-> [store EXCEPT ![normalizedEmail] = NoCode]]
  ELSE IF stored.code # code THEN [ok |-> FALSE, store |-> store]
  ELSE [ok |-> TRUE, store |-> [store EXCEPT ![normalizedEmail] = NoCode]]

\* mutant: an expired entry is refused but left in the store
verifyCodeKeepsExpired(store, t, email, code) ==
  LET normalizedEmail == Lower(email)
      stored == store[normalizedEmail] IN
  IF stored = NoCode THEN [ok |-> FALSE, store |-> store]
  ELSE IF t > stored.expiresAt THEN [ok |-> FALSE, store |-> store]
  ELSE IF stored.code # code THEN [ok |-> FALSE, store |-> store]
  ELSE [ok |-> TRUE, store |-> [store EXCEPT ![normalizedEmail] = NoCode]]

\* verifyCode: the value returned and the store it leaves
\* mutant: a wrong code uses the entry up
verifyCodeBurnsOnMismatch(store, t, email, code) ==
  LET normalizedEmail == Lower(email)
      stored == store[normalizedEmail] IN
  IF stored = NoCode THEN [ok |-> FALSE, store |-> store]
  ELSE IF t > stored.expiresAt
  THEN [ok |-> FALSE, store |-> [store EXCEPT ![normalizedEmail] = NoCode]]
  ELSE [ok |-> stored.code = code,
        store |-> [store EXCEPT ![normalizedEmail] = NoCode]]

verifyCode(store, t, email, code) ==
  LET normalizedEmail == Lower(email)
      stored == store[normalizedEmail] IN
  IF stored = NoCode THEN [ok |-> FALSE, store |-> store]
  ELSE IF t > stored.expiresAt
  THEN [ok |-> FALSE, store |-> [store EXCEPT ![normalizedEmail] = NoCode]]
  ELSE IF stored.code # code THEN [ok |-> FALSE, store |-> store]
  ELSE [ok |-> TRUE, store |-> [store EXCEPT ![normalizedEmail] = NoCode]]

\* mutant: the sweep also removes an entry at the instant it expires
SweepStoreInclusive(store, t) ==
  [k \in Keys |->
     IF store[k] # NoCode /\ t >= store[k].expiresAt THEN NoCode ELSE store[k]]

\* mutant: the sweep removes nothing
SweepStoreKeepsAll(store, t) == store

\* for (const [email, stored] of codeStore.entries())
\*   if (now > stored.expiresAt) codeStore.delete(email)
SweepStore(store, t) ==
  [k \in Keys |->
     IF store[k] # NoCode /\ t > store[k].expiresAt THEN NoCode ELSE store[k]]

\* setInterval(() => { ... if (now > stored.expiresAt) codeStore.delete(email) }, 60 * 1000)
Sweep ==
  /\ SweepStore(codeStore, now) # codeStore
  /\ codeStore' = SweepStore(codeStore, now)
  /\ UNCHANGED <<accounts, now, pc, req, result, calls, atStart, resp, consumed, social, users>>

\* the clock
Tick ==
  /\ now + TickMs <= MaxTicks * TickMs
  /\ now' = now + TickMs
  /\ UNCHANGED <<accounts, codeStore, pc, req, result, calls, atStart, resp, consumed, social, users>>

\* the exported functions of the store called on their own; resp keeps the
\* arguments, the value returned and the entry found under the key
StoreCall(op, email, code, ok, prior) ==
  [op |-> op, email |-> email, code |-> code, ok |-> ok, prior |-> prior]

CallStoreCode(email, code) ==
  /\ codeStore' = storeCode(codeStore, now, email, code)
  /\ consumed' = [consumed EXCEPT ![Lower(email)] = 0]
  /\ resp' = StoreCall("storeCode", email, code, TRUE, codeStore[Lower(email)])
  /\ UNCHANGED <<accounts, now, pc, req, result, calls, atStart, social, users>>

CallVerifyCode(email, code) ==
  LET v == verifyCode(codeStore, now, email, code) IN
  /\ codeStore' = v.store
  /\ consumed' = IF v.ok THEN [consumed EXCEPT ![Lower(email)] = @ + 1]
                 ELSE consumed
  /\ resp' = StoreCall("verifyCode", email, code, v.ok, codeStore[Lower(email)])
  /\ UNCHANGED <<accounts, now, pc, req, result, calls, atStart, social, users>>

(* ---------------- authController.ts: sendVerification ------------------ *)
Response(op, email, code, status) == [op |-> op, email |-> email, code |-> code, status |-> status]

\* mutant: an account that has a password is not refused
SendVerificationStatusNoConflict(accts, existingUser) ==
  IF existingUser = NoUid THEN 404 ELSE 200

\* the status sendVerification answers for the account findUserByEmail found
SendVerificationStatus(accts, existingUser) ==
  IF existingUser = NoUid THEN 404
  ELSE IF hasPassword(accts[existingUser]) THEN 409
  ELSE 200

SendVerification(email) ==
  LET existingUser == findUserByEmail(accounts, email, NoUid)
      status == SendVerificationStatus(accounts, existingUser) IN
  /\ IF status = 200
     THEN \E code \in Codes :
            /\ codeStore' = storeCode(codeStore, now, email, code)
            /\ consumed' = [consumed EXCEPT ![Lower(email)] = 0]
            /\ resp' = Response("sendVerification", email, code, status)
     ELSE /\ resp' = Response("sendVerification", email, "none", status)
          /\ UNCHANGED <<codeStore, consumed>>
  /\ UNCHANGED <<accounts, now, pc, req, result, calls, atStart, social, users>>

(* ------------------- authController.ts: addPassword -------------------- *)
\* mutant: only the password is set, the top-level email is left as it was
UpdateCredentialsPasswordOnly(accts, uid, email, password) ==
  [accts EXCEPT
     ![uid].password = password,
     ![uid].providerData =
        IF hasPassword(accts[uid]) THEN @
        ELSE Append(@, PasswordRecord(Lower(email)))]

\* auth.updateUser(uid, { email, password }): the account gets the address as
\* its top-level email and a password credential
UpdateCredentials(accts, uid, email, password) ==
  [accts EXCEPT
     ![uid].email = Lower(email),
     ![uid].password = password,
     ![uid].providerData =
        IF hasPassword(accts[uid]) THEN @
        ELSE Append(@, PasswordRecord(Lower(email)))]

\* mutant: the result of verifyCode is ignored
CodeAcceptedAlways(isValid) == TRUE

\* if (!isValid) throw new AppError(..., 401): whether addPassword goes on
CodeAccepted(isValid) == isValid

AddPassword(email, code, password) ==
  LET v == verifyCode(codeStore, now, email, code)
      existingUser == findUserByEmail(accounts, email, NoUid) IN
  /\ codeStore' = v.store
  /\ consumed' = IF v.ok THEN [consumed EXCEPT ![Lower(email)] = @ + 1]
                 ELSE consumed
  /\ IF ~CodeAccepted(v.ok)
     THEN /\ resp' = Response("addPassword", email, code, 401)
          /\ UNCHANGED accounts
     ELSE IF existingUser = NoUid
     THEN /\ resp' = Response("addPassword", email, code, 404)
          /\ UNCHANGED accounts
     ELSE /\ accounts' = UpdateCredentials(accounts, existingUser, email, password)
          /\ resp' = Response("addPassword", email, code, 200)
  /\ UNCHANGED <<now, pc, req, result, calls, atStart, social, users>>

\* mutant: the code is put back when the update fails
StoreWhenUpdateFailsRestored(store, v) == store

\* verifyCode has run when auth.updateUser throws: the store is the one
\* verifyCode left
StoreWhenUpdateFails(store, v) == v.store

\* addPassword when auth.updateUser rejects: the error leaves the handler
\* after the code was accepted and the account found
AddPasswordFails(email, code, password) ==
  LET v == verifyCode(codeStore, now, email, code)
      existingUser == findUserByEmail(accounts, email, NoUid) IN
  /\ CodeAccepted(v.ok)
  /\ existingUser # NoUid
  /\ codeStore' = StoreWhenUpdateFails(codeStore, v)
  /\ consumed' = [consumed EXCEPT ![Lower(email)] = @ + 1]
  /\ resp' = Response("addPassword", email, code, 500)
  /\ UNCHANGED <<accounts, now, pc, req, result, calls, atStart, social, users>>

(* ------- routes/auth.ts: POST /send-verification, POST /add-password ----- *)
\* auth.updateUser(uid, { password }): the account, which has a top-level
\* email, gets a password credential
UpdatePassword(accts, uid, password) ==
  [accts EXCEPT
     ![uid].password = password,
     ![uid].providerData =
        IF hasPassword(accts[uid]) THEN @
        ELSE Append(@, PasswordRecord(accts[uid].email))]

\* const existingUser = await auth.getUserByEmail(email), user-not-found
\* caught and answered with 404
RouteLookup(accts, email) == GetUserByEmail(accts, email)

RouteSendVerification(email) ==
  LET existingUser == RouteLookup(accounts, email)
      status == SendVerificationStatus(accounts, existingUser) IN
  /\ IF status = 200
     THEN \E code \in Codes :
            /\ codeStore' = storeCode(codeStore, now, email, code)
            /\ consumed' = [consumed EXCEPT ![Lower(email)] = 0]
            /\ resp' = Response("/send-verification", email, code, status)
     ELSE /\ resp' = Response("/send-verification", email, "none", status)
          /\ UNCHANGED <<codeStore, consumed>>
  /\ UNCHANGED <<accounts, now, pc, req, result, calls, atStart, social, users>>

RouteAddPassword(email, code, password) ==
  LET v == verifyCode(codeStore, now, email, code)
      existingUser == RouteLookup(accounts, email) IN
  /\ codeStore' = v.store
  /\ consumed' = IF v.ok THEN [consumed EXCEPT ![Lower(email)] = @ + 1]
                 ELSE consumed
  /\ IF ~v.ok
     THEN /\ resp' = Response("/add-password", email, code, 401)
          /\ UNCHANGED accounts
     ELSE IF existingUser = NoUid
     THEN /\ resp' = Response("/add-password", email, code, 404)
          /\ UNCHANGED accounts
     ELSE /\ accounts' = UpdatePassword(accounts, existingUser, password)
          /\ resp' = Response("/add-password", email, code, 200)
  /\ UNCHANGED <<now, pc, req, result, calls, atStart, social, users>>

(* --------- socialAuthService: checkSocialAuthConflict (pre-flight) ------ *)
\* mutant: the password case is tested before the same-provider case
ConflictActionPasswordFirst(existingProviders, incomingProviderId) ==
  IF "password" \in existingProviders THEN "link"
  ELSE IF incomingProviderId \in existingProviders THEN "signin"
  ELSE "link"

\* the branch taken for the account the direct lookup found
ConflictAction(existingProviders, incomingProviderId) ==
  IF incomingProviderId \in existingProviders THEN "signin" ELSE "link"

CheckSocialAuthConflict(provider, providerEmail) ==
  LET email == Lower(providerEmail)
      existingUser == GetUserByEmail(accounts, email)
      action == IF existingUser = NoUid THEN "signin"
                ELSE ConflictAction(ProviderIds(accounts[existingUser]), provider) IN
  /\ social' = [provider |-> provider, email |-> email, action |-> action,
                customToken |-> IF action = "link" THEN existingUser ELSE NoToken,
                existingUid |-> IF action = "link" THEN existingUser ELSE NoUid]
  /\ UNCHANGED <<accounts, codeStore, now, pc, req, result, calls, atStart, resp, consumed, users>>

(* ------------- register/page.tsx: handleRegister ----------------------- *)
\* the uid the backend gives the next account; a uid is never given twice
FreshUid(u) ==
  /\ u = "u3"
  /\ ~accounts[u].exists
  /\ \A p \in Procs : ~atStart[p][u].exists

\* createUserWithEmailAndPassword(auth, email, password): a new password
\* account, refused (auth/email-already-in-use) when an account has the
\* address as its top-level email
Register(u, email) ==
  /\ FreshUid(u)
  /\ GetUserByEmail(accounts, email) = NoUid
  /\ accounts' = [accounts EXCEPT ![u] =
       UserRecord(u, Lower(email), <<PasswordRecord(Lower(email))>>, OldPassword)]
  /\ UNCHANGED <<codeStore, now, pc, req, result, calls, atStart, resp, consumed, social, users>>

(* ---------------- userService.ts: syncUserToDatabase ------------------- *)
Row(uid, email) == [firebaseUid |-> uid, email |-> email]

\* getEmailFromFirebase(uid, email): the email passed in, else the effective
\* email of the account auth.getUser returns, else (also when getUser
\* throws) null
getEmailFromFirebase(accts, uid, email) ==
  IF email # NoEmail THEN email
  ELSE IF ~accts[uid].exists THEN NoEmail
  ELSE getEmailFromUser(accts[uid])

\* prisma.user.findUnique({ where: { email } })
FindByEmail(rows, email) == {r \in rows : r.email = email}

\* prisma.user.update({ where: { email }, data: { firebaseUid: uid } }); the
\* table refuses a second row with the same firebaseUid
PrismaUpdate(rows, email, uid) ==
  LET old == CHOOSE r \in rows : r.email = email IN
  IF \E o \in rows \ {old} : o.firebaseUid = uid
  THEN [outcome |-> "error", rows |-> rows]
  ELSE [outcome |-> "updated", rows |-> (rows \ {old}) \cup {Row(uid, email)}]

\* prisma.user.upsert({ where: { firebaseUid: uid }, update: { email },
\* create: { firebaseUid: uid, email } }); the table refuses a second row
\* with the same email
PrismaUpsert(rows, uid, email) ==
  LET mine == {r \in rows : r.firebaseUid = uid} IN
  IF \E o \in rows \ mine : o.email = email
  THEN [outcome |-> "error", rows |-> rows]
  ELSE [outcome |-> IF mine = {} THEN "created" ELSE "upserted",
        rows |-> (rows \ mine) \cup {Row(uid, email)}]

\* mutant: the row found by email is not looked at
syncUserToDatabaseUpsertOnly(accts, rows, uid, email) ==
  LET userEmail == getEmailFromFirebase(accts, uid, email) IN
  IF userEmail = NoEmail THEN [outcome |-> "emailMissing", rows |-> rows]
  ELSE PrismaUpsert(rows, uid, userEmail)

\* mutant: the missing email is not tested before the table is written
syncUserToDatabaseNoEmailCheck(accts, rows, uid, email) ==
  LET userEmail == getEmailFromFirebase(accts, uid, email)
      existingByEmail == FindByEmail(rows, userEmail) IN
  IF \E r \in existingByEmail : r.firebaseUid # uid
  THEN PrismaUpdate(rows, userEmail, uid)
  ELSE PrismaUpsert(rows, uid, userEmail)

syncUserToDatabase(accts, rows, uid, email) ==
  LET userEmail == getEmailFromFirebase(accts, uid, email)
      existingByEmail == FindByEmail(rows, userEmail) IN
  IF userEmail = NoEmail THEN [outcome |-> "emailMissing", rows |-> rows]
  ELSE IF \E r \in existingByEmail : r.firebaseUid # uid
  THEN PrismaUpdate(rows, userEmail, uid)
  ELSE PrismaUpsert(rows, uid, userEmail)

\* resp keeps the arguments, the outcome and the row the email had before
SyncCall(uid, email, outcome, prior) ==
  [op |-> "syncUserToDatabase", uid |-> uid, email |-> email,
   outcome |-> outcome, prior |-> prior]

\* the email of the verified token: none, or the account's top-level email
TokenEmails(accts, uid) ==
  {NoEmail} \cup (IF accts[uid].exists THEN {accts[uid].email} ELSE {})

\* userController.syncUser: syncUserToDatabase({ uid, email, name })
SyncUser(uid, email) ==
  LET r == syncUserToDatabase(accounts, users, uid, email) IN
  /\ email \in TokenEmails(accounts, uid)
  /\ users' = r.rows
  /\ resp' = SyncCall(uid, getEmailFromFirebase(accounts, uid, email), r.outcome,
                      FindByEmail(users, getEmailFromFirebase(accounts, uid, email)))
  /\ UNCHANGED <<accounts, codeStore, now, pc, req, result, calls, atStart, consumed, social>>

\* a sync that arrives late: the verified token is that of an account a
\* reconciliation request has deleted since, and carries the uid and the
\* top-level email the account had
LateSyncUser(uid, email) ==
  LET r == syncUserToDatabase(accounts, users, uid, email) IN
  /\ ~accounts[uid].exists
  /\ email # NoEmail
  /\ \E p \in Procs : atStart[p][uid].exists /\ atStart[p][uid].email = email
  /\ users' = r.rows
  /\ resp' = SyncCall(uid, email, r.outcome, FindByEmail(users, email))
  /\ UNCHANGED <<accounts, codeStore, now, pc, req, result, calls, atStart, consumed, social>>

(* ------------- providerVerifier.ts: verifyProviderToken ---------------- *)
ProviderKinds == {"google.com", "facebook.com", "microsoft.com", "apple.com", "twitter.com"}
NoSubject == "none"

\* what the provider answers for the token: response.ok and the fields of
\* the body the functions read. For apple.com there is no request: ok says
\* that the token has three parts and its payload decodes, and the body is
\* the payload.
UpstreamResponses ==
  [ok : BOOLEAN, sub : {NoSubject, "s1"}, id : {NoSubject, "s2"},
   email : {NoEmail, E1}, mail : {NoEmail, E2}, userPrincipalName : {NoEmail, E1U}]

TokenInvalid == [threw |-> TRUE, providerUid |-> NoSubject, email |-> NoEmail]
ProviderUserInfo(providerUid, email) ==
  [threw |-> FALSE, providerUid |-> providerUid, email |-> email]

verifyGoogleToken(r) ==
  IF ~r.ok THEN TokenInvalid ELSE ProviderUserInfo(r.sub, r.email)
verifyFacebookToken(r) ==
  IF ~r.ok THEN TokenInvalid ELSE ProviderUserInfo(r.id, r.email)
verifyMicrosoftToken(r) ==
  IF ~r.ok THEN TokenInvalid
  ELSE ProviderUserInfo(r.id, IF r.mail # NoEmail THEN r.mail ELSE r.userPrincipalName)
verifyAppleToken(r) ==
  IF ~r.ok THEN TokenInvalid ELSE ProviderUserInfo(r.sub, r.email)

verifyProviderToken(providerId, r) ==
  CASE providerId = "google.com" -> verifyGoogleToken(r)
    [] providerId = "facebook.com" -> verifyFacebookToken(r)
    [] providerId = "microsoft.com" -> verifyMicrosoftToken(r)
    [] providerId = "apple.com" -> verifyAppleToken(r)
    [] OTHER -> TokenInvalid

\* resp keeps the arguments and the value returned
CallVerifyProviderToken(providerId, r) ==
  /\ resp' = [op |-> "verifyProviderToken", providerId |-> providerId,
              response |-> r, value |-> verifyProviderToken(providerId, r)]
  /\ UNCHANGED <<accounts, codeStore, now, pc, req, result, calls, atStart, consumed, social, users>>

(* --------------------------- specifications ---------------------------- *)
\* the verification code store on its own
InitStore ==
  /\ Init
  /\ \A u \in Uids : ~accounts[u].exists

NextStore ==
  \/ \E email \in Emails, code \in Codes : CallStoreCode(email, code)
  \/ \E email \in Emails, code \in Codes : CallVerifyCode(email, code)
  \/ Tick
  \/ Sweep

SpecStore == InitStore /\ [][NextStore]_vars

\* the store with a sweep that keeps running and a clock that keeps
\* advancing; codes are stored while the clock of the model can still pass
\* their expiry
StoreCodeInTime(email, code) ==
  /\ now + CODE_EXPIRY_MS < MaxTicks * TickMs
  /\ CallStoreCode(email, code)

NextStoreLive ==
  \/ \E email \in Emails, code \in Codes : StoreCodeInTime(email, code)
  \/ \E email \in Emails, code \in Codes : CallVerifyCode(email, code)
  \/ Tick
  \/ Sweep

SpecStoreLive ==
  InitStore /\ [][NextStoreLive]_vars /\ WF_vars(Tick) /\ WF_vars(Sweep)

\* linkAccounts exercised on its own, for every source and target
NextLink ==
  \/ \E sourceUid, targetUid \in Uids :
       \E linkType \in {"social-into-password", "social-into-social"} :
         LinkAccountsCall(1, sourceUid, targetUid, linkType)
  \/ DeleteSource(1)
  \/ LinkProvider(1)
  \/ CreateToken(1)

SpecLink == Init /\ [][NextLink]_vars

\* one request at a time against a backend whose calls may be rejected
NextFault ==
  \/ CheckAndLinkAccounts(1)
  \/ GetUserFails(1)
  \/ FindDirectFails(1)
  \/ FindByListFails(1)
  \/ LinkProviderFails(1)

SpecFault == Init /\ [][NextFault]_vars

\* one reconciliation request at a time, and the pre-flight check
Next ==
  \/ CheckAndLinkAccounts(1)
  \/ \E provider \in SocialProviders, e \in Emails : CheckSocialAuthConflict(provider, e)

Spec == Init /\ [][Next]_vars

\* the add-password flow next to reconciliation, with the clock
InitVerify ==
  /\ Init
  /\ ~accounts["u3"].exists

\* no reconciliation request is suspended at an await
Quiet == \A p \in Procs : pc[p] \in {"idle", "done"}

\* requests are served one after the other, in any order
NextVerify ==
  \/ CheckAndLinkAccounts(1)
  \/ Quiet /\ \E e \in Emails : SendVerification(e)
  \/ Quiet /\ \E e \in Emails, c \in Codes, pw \in Passwords : AddPassword(e, c, pw)
  \/ Quiet /\ Tick
  \/ Quiet /\ Sweep

SpecVerify == InitVerify /\ [][NextVerify]_vars

\* a merge and its retry
NextRetry ==
  \/ CheckAndLinkAccounts(1)
  \/ RetryLink(1)

SpecRetry == Init /\ [][NextRetry]_vars

\* two reconciliation requests in flight
NextRace ==
  \/ OneRequest(1)
  \/ OneRequest(2)

SpecRace == Init /\ [][NextRace]_vars

\* the add-password endpoints, as the controller and as the router serve
\* them, with the clock
NextHandlers ==
  \/ \E e \in Emails : SendVerification(e)
  \/ \E e \in Emails, c \in Codes, pw \in Passwords : AddPassword(e, c, pw)
  \/ \E e \in Emails : RouteSendVerification(e)
  \/ \E e \in Emails, c \in Codes, pw \in Passwords : RouteAddPassword(e, c, pw)
  \/ Tick

SpecHandlers == InitVerify /\ [][NextHandlers]_vars

\* profile synchronisation next to reconciliation
NextSync ==
  \/ CheckAndLinkAccounts(1)
  \/ \E u \in Uids, e \in Emails \cup {NoEmail} : SyncUser(u, e)

SpecSync == InitVerify /\ [][NextSync]_vars

\* the provider token verifier called on its own
NextProvider ==
  \E providerId \in ProviderKinds, r \in UpstreamResponses :
    CallVerifyProviderToken(providerId, r)

SpecProvider == InitVerify /\ [][NextProvider]_vars

\* the add-password flow next to registrations with email and password
NextRegister ==
  \/ \E u \in Uids, e \in Emails : Register(u, e)
  \/ \E e \in Emails : SendVerification(e)
  \/ \E e \in Emails, c \in Codes, pw \in Passwords : AddPassword(e, c, pw)
  \/ Tick

SpecRegister == InitVerify /\ [][NextRegister]_vars

\* profile synchronisation next to reconciliation, late syncs included
NextLateSync ==
  \/ CheckAndLinkAccounts(1)
  \/ \E u \in Uids, e \in Emails \cup {NoEmail} : SyncUser(u, e)
  \/ \E u \in Uids, e \in Emails : LateSyncUser(u, e)

SpecLateSync == InitVerify /\ [][NextLateSync]_vars

\* the add-password flow with a backend that may reject the update
NextAddFault ==
  \/ \E e \in Emails : SendVerification(e)
  \/ \E e \in Emails, c \in Codes, pw \in Passwords : AddPassword(e, c, pw)
  \/ \E e \in Emails, c \in Codes, pw \in Passwords : AddPasswordFails(e, c, pw)
  \/ Tick

SpecAddFault == InitVerify /\ [][NextAddFault]_vars

\* profile synchronisation next to the add-password flow
NextSyncAdd ==
  \/ \E e \in Emails : SendVerification(e)
  \/ \E e \in Emails, c \in Codes, pw \in Passwords : AddPassword(e, c, pw)
  \/ \E u \in Uids, e \in Emails \cup {NoEmail} : SyncUser(u, e)

SpecSyncAdd == InitVerify /\ [][NextSyncAdd]_vars

(* ---------- userSearchService.ts: the functions called on their own ----- *)
\* the user records getEmailFromUser is applied to: with and without a
\* top-level email, the provider records in every order
SearchRecords == {Google2, Facebook2, Microsoft2}
SearchUsers ==
  {UserRecord("u1", e, pd, NoPassword) :
     e \in {NoEmail, E1},
     pd \in {<<>>} \cup {<<a>> : a \in SearchRecords}
            \cup {<<a, b>> : a \in SearchRecords, b \in SearchRecords}
            \cup {<<a, b, c>> : a \in SearchRecords, b \in SearchRecords,
                               c \in SearchRecords}}

\* resp keeps the arguments and the value returned
SearchCall(op, email, excludeUid, user, value) ==
  [op |-> op, email |-> email, excludeUid |-> excludeUid, user |-> user,
   value |-> value]

CallGetEmailFromUser(user) ==
  /\ resp' = SearchCall("getEmailFromUser", NoEmail, NoUid, user, getEmailFromUser(user))
  /\ UNCHANGED <<accounts, codeStore, now, pc, req, result, calls, atStart, consumed, social, users>>

CallFindUserByEmail(email, excludeUid) ==
  /\ resp' = SearchCall("findUserByEmail", email, excludeUid, NoUser,
                        findUserByEmail(accounts, email, excludeUid))
  /\ UNCHANGED <<accounts, codeStore, now, pc, req, result, calls, atStart, consumed, social, users>>

NextSearch ==
  \/ \E user \in SearchUsers : CallGetEmailFromUser(user)
  \/ \E e \in Emails, x \in Uids \cup {NoUid} : CallFindUserByEmail(e, x)

SpecSearch == Init /\ [][NextSearch]_vars

(* ------------------------------ properties ----------------------------- *)
SocialOnly(user) == user.exists /\ ~hasPassword(user) /\ hasSocial(user)

SharesEmail(a, b) ==
  /\ a.exists /\ b.exists
  /\ getEmailFromUser(a) # NoEmail
  /\ getEmailFromUser(a) = getEmailFromUser(b)

SignInOutcome(p) ==
  /\ result[p].success /\ ~result[p].linked /\ ~result[p].needsVerification
  /\ result[p].customToken = NoToken
  /\ accounts = atStart[p]

\* C1: in every merge the deleteUser call for the losing account comes
\* strictly before any providerToLink call on the surviving account: each
\* updateUser entry of a request's call log has an earlier, successful
\* deleteUser entry for the source account.
C1_DeleteBeforeAttach ==
  \A p \in Procs : \A i \in 1..Len(calls[p]) :
    calls[p][i].op = "updateUser" =>
      /\ calls[p][i].uid = req[p].target
      /\ \E j \in 1..(i - 1) :
           /\ calls[p][j].op = "deleteUser"
           /\ calls[p][j].uid = req[p].source
           /\ calls[p][j].ok

\* a finished merge that attached a provider to the survivor
C1_Witness ==
  \E p \in Procs :
    /\ pc[p] = "done" /\ result[p].linked
    /\ \E i \in 1..Len(calls[p]) : calls[p][i].op = "updateUser" /\ calls[p][i].ok

C3_PasswordOnlyAfterConsume ==
  [][\A u \in Uids :
       (SocialOnly(accounts[u]) /\ accounts[u].password = NoPassword
        /\ (hasPassword(accounts'[u]) \/ accounts'[u].password # NoPassword))
       => LET k == Lower(getEmailFromUser(accounts[u])) IN
          /\ codeStore[k] # NoCode
          /\ now <= codeStore[k].expiresAt
          /\ codeStore'[k] = NoCode
          /\ consumed'[k] = consumed[k] + 1
          /\ resp'.op = "addPassword" /\ resp'.status = 200
          /\ resp'.code = codeStore[k].code
          /\ Lower(resp'.email) = k]_vars

\* a social-only account of the initial state now has a password
C3_Witness ==
  \E u \in Uids :
    /\ accounts[u].exists /\ hasPassword(accounts[u]) /\ hasSocial(accounts[u])
    /\ accounts[u].password \in Passwords
    /\ resp.op = "addPassword" /\ resp.status = 200

\* C4: a code issued for an email verifies at most once: between two
\* storeCode calls for a key, verifyCode returns true at most one time.
C4_CodeSingleUse == \A k \in Keys : consumed[k] <= 1

\* the code was consumed and a further addPassword with it was refused
C4_Witness ==
  \E k \in Keys :
    /\ consumed[k] = 1 /\ codeStore[k] = NoCode
    /\ resp.op = "addPassword" /\ resp.status = 401 /\ Lower(resp.email) = k
    /\ \E u \in Uids : accounts[u].password \in Passwords

\* C5: verifyCode returns true exactly when an entry exists under the
\* lower-cased email, the clock is not past its expiresAt and its code
\* equals the supplied code; it then removes the entry. Otherwise it
\* returns false (addPassword answers 401).
C5_VerifyCodeIff ==
  [][\A e \in Emails, c \in Codes, pw \in Passwords :
       AddPassword(e, c, pw) =>
         LET stored == codeStore[Lower(e)]
             valid == /\ stored # NoCode
                      /\ now <= stored.expiresAt
                      /\ stored.code = c IN
         (/\ (resp'.status # 401) <=> valid
          /\ (consumed'[Lower(e)] = consumed[Lower(e)] + 1) <=> valid
          /\ valid => codeStore'[Lower(e)] = NoCode)]_vars

\* a code accepted at the last instant of its lifetime (now = expiresAt)
C5_Witness ==
  /\ resp.op = "addPassword" /\ resp.status = 200
  /\ now = CODE_EXPIRY_MS
  /\ codeStore[Lower(resp.email)] = NoCode

\* C6: when the current account is social-only and an account holding a
\* password shares its effective email, the merge keeps the password account:
\* the current account is gone, the password account exists with its email,
\* password and former provider records unchanged, and the token is for it.
C6_PasswordAccountSurvives ==
  \A p \in Procs : pc[p] = "done" =>
    LET before == atStart[p]
        uid == req[p].uid
        current == before[uid] IN
    \A v \in Uids \ {uid} :
        (SocialOnly(current) /\ hasPassword(before[v]) /\ SharesEmail(current, before[v])) =>
          /\ result[p].success /\ result[p].linked
          /\ result[p].customToken = v
          /\ ~accounts[uid].exists
          /\ accounts[v].exists
          /\ accounts[v].email = before[v].email
          /\ accounts[v].password = before[v].password
          /\ Len(accounts[v].providerData) >= Len(before[v].providerData)
          /\ SubSeq(accounts[v].providerData, 1, Len(before[v].providerData))
               = before[v].providerData

\* a social account was merged into a password account
C6_Witness ==
  \E p \in Procs :
    /\ pc[p] = "done" /\ result[p].linked
    /\ req[p].linkType = "social-into-password"
    /\ hasPassword(accounts[req[p].target])
    /\ ~accounts[req[p].uid].exists

C8_OlderSurvives ==
  \A p \in Procs :
    LET before == atStart[p]
        uid == req[p].uid IN
    \A v \in Uids \ {uid} :
      (/\ pc[p] = "done"
       /\ SocialOnly(before[uid]) /\ SocialOnly(before[v])
       /\ SharesEmail(before[uid], before[v])
       /\ \A w \in Uids \ {uid, v} : ~SharesEmail(before[uid], before[w]))
      => LET older == IF CreatedAt(uid) < CreatedAt(v) THEN uid ELSE v
             newer == IF CreatedAt(uid) < CreatedAt(v) THEN v ELSE uid IN
         /\ result[p].linked
         /\ accounts[older].exists
         /\ ~accounts[newer].exists

\* C9 as stated: the second call of the merge for the same accounts succeeds
\* with a token for the survivor, and the survivor holds each of the
\* loser's provider records exactly once.
C9_RetrySucceeds ==
  \A p \in Procs : (pc[p] = "done" /\ req[p].attempt = 2) =>
    /\ result[p].success /\ result[p].linked
    /\ result[p].customToken = req[p].target
    /\ \A i \in 1..Len(req[p].toLink) :
         Cardinality({j \in 1..Len(accounts[req[p].target].providerData) :
           /\ accounts[req[p].target].providerData[j].providerId
                = req[p].toLink[i].providerId
           /\ accounts[req[p].target].providerData[j].uid
                = req[p].toLink[i].uid}) = 1

\* C10 as stated: two requests for the same current account that both read
\* the duplicate while the current account still existed both end without
\* a failure result.
C10_RaceBenign ==
  (/\ pc[1] = "done" /\ pc[2] = "done"
   /\ req[1].uid = req[2].uid
   /\ req[1].currentLive /\ req[2].currentLive
   /\ req[1].linkType # "none" /\ req[2].linkType # "none")
  => result[1].success /\ result[2].success

\* the backend calls that change accounts or mint a credential
Mutating(c) == c.op \in {"deleteUser", "updateUser", "createCustomToken"}

NoMutation(p) ==
  /\ \A i \in 1..Len(calls[p]) : ~Mutating(calls[p][i])
  /\ accounts = atStart[p]

\* C11: when checkAndLinkAccounts ends in the SignIn outcome (success, not
\* linked, no verification required) it has made no deleteUser, updateUser or
\* createCustomToken call and the accounts are as they were at its start.
C11_SignInNoMutation ==
  \A p \in Procs :
    (pc[p] = "done" /\ result[p].success
       /\ ~result[p].linked /\ ~result[p].needsVerification)
    => NoMutation(p)

\* a request ended in SignIn because no merge case matched
C11_Witness ==
  \E p \in Procs :
    /\ pc[p] = "done" /\ result[p].message = "No link scenario matched"
    /\ req[p].dup.exists
    /\ accounts = atStart[p]

\* the action the precedence-ordered cases assign to (current, duplicate)
ExpectedAction(current, duplicate) ==
  IF ~duplicate.exists THEN "SignIn"
  ELSE IF ~hasPassword(current) /\ hasPassword(duplicate) THEN "MergeNow"
  ELSE IF hasPassword(current) /\ SocialOnly(duplicate) THEN "RequireVerification"
  ELSE IF SocialOnly(current) /\ SocialOnly(duplicate) THEN "MergeNow"
  ELSE "SignIn"

\* the action a finished request took, read off its result and its calls
TakenAction(p) ==
  IF result[p].linked THEN "MergeNow"
  ELSE IF result[p].needsVerification THEN "RequireVerification"
  ELSE IF result[p].success THEN "SignIn"
  ELSE "Failure"

\* one account per combination of (hasPassword, hasSocial)
AccountShapes ==
  {UserRecord("u1", E1, pd, NoPassword) :
     pd \in {<<>>, <<PasswordRecord(E1)>>, <<Google1>>, <<PasswordRecord(E1), Google1>>}}

\* the action a link case stands for
CaseAction(kind) ==
  CASE kind \in {"social-into-password", "social-into-social"} -> "MergeNow"
    [] kind = "password-into-social" -> "RequireVerification"
    [] OTHER -> "SignIn"

AttachCalls(p) == SelectSeq(calls[p], LAMBDA c : c.op = "updateUser")

\* C13: in a merge whose deleteUser succeeded, every non-password provider
\* record of the source gets exactly one providerToLink call, in order,
\* whether or not earlier ones were rejected, and the merge returns success
\* with a custom token for the target.
C13_AttachFailureTolerated ==
  \A p \in Procs :
    (/\ pc[p] = "done"
     /\ \E i \in 1..Len(calls[p]) : calls[p][i].op = "deleteUser" /\ calls[p][i].ok
     /\ req[p].linkType \in {"social-into-password", "social-into-social"})
    => /\ result[p].success /\ result[p].linked
       /\ result[p].customToken = req[p].target
       /\ req[p].toLink = providersToLink(atStart[p][req[p].uid])
       /\ Len(AttachCalls(p)) = Len(req[p].toLink)
       /\ \A i \in 1..Len(req[p].toLink) :
            /\ AttachCalls(p)[i].providerId = req[p].toLink[i].providerId
            /\ AttachCalls(p)[i].uid = req[p].target

\* a merge whose first attach was rejected went on to the second and ended
\* with a token
C13_Witness ==
  \E p \in Procs :
    /\ pc[p] = "done" /\ result[p].linked /\ result[p].customToken # NoToken
    /\ Len(AttachCalls(p)) = 2
    /\ ~AttachCalls(p)[1].ok

\* C15: when getUser, getUserByEmail (other than not-found) or listUsers is
\* rejected, checkAndLinkAccounts returns a failure result and has made no
\* mutation: no account deleted, no provider attached, no token minted.
C15_LookupFailureNoMutation ==
  \A p \in Procs :
    (pc[p] = "done" /\ req[p].fault # "none")
    => /\ ~result[p].success /\ ~result[p].linked /\ ~result[p].needsVerification
       /\ result[p].customToken = NoToken
       /\ calls[p][Len(calls[p])].op = req[p].fault
       /\ ~calls[p][Len(calls[p])].ok
       /\ NoMutation(p)

\* listUsers was rejected after the direct lookup reported not-found
C15_Witness ==
  \E p \in Procs :
    /\ pc[p] = "done" /\ req[p].fault = "listUsers"
    /\ ~result[p].success
    /\ Len(calls[p]) = 3
    /\ \E u \in Uids \ {req[p].uid} : SharesEmail(accounts[req[p].uid], accounts[u])

\* C14: createCustomToken is called for the target of the merge, never the
\* source, after a successful deleteUser of the source and after all
\* providerToLink calls of the loop; it is the request's last call, and a
\* request whose deleteUser was rejected mints no token.
C14_TokenAfterDeleteAndAttach ==
  \A p \in Procs :
    /\ \A i \in 1..Len(calls[p]) :
         calls[p][i].op = "createCustomToken" =>
           /\ calls[p][i].uid = req[p].target
           /\ req[p].target # req[p].source
           /\ \E j \in 1..(i - 1) :
                /\ calls[p][j].op = "deleteUser" /\ calls[p][j].ok
                /\ calls[p][j].uid = req[p].source
           /\ Cardinality({j \in 1..(i - 1) : calls[p][j].op = "updateUser"})
                = Len(req[p].toLink)
           /\ i = Len(calls[p])
    /\ (\E j \in 1..Len(calls[p]) : calls[p][j].op = "deleteUser" /\ ~calls[p][j].ok)
         => /\ \A i \in 1..Len(calls[p]) : calls[p][i].op # "createCustomToken"
            /\ result[p].customToken = NoToken
    /\ (pc[p] = "done" /\ result[p].customToken # NoToken)
         => /\ result[p].customToken = req[p].target
            /\ calls[p][Len(calls[p])].op = "createCustomToken"

\* a token minted after the deletion and two successful attaches
C14_Witness ==
  \E p \in Procs :
    /\ pc[p] = "done" /\ result[p].customToken = req[p].target
    /\ calls[p][Len(calls[p])].op = "createCustomToken"
    /\ Len(AttachCalls(p)) = 2
    /\ AttachCalls(p)[1].ok /\ AttachCalls(p)[2].ok
    /\ ~accounts[req[p].source].exists

\* C16: linkAccounts never passes a password record to providerToLink,
\* whatever provider records the source account has.
C16_NoPasswordAttached ==
  \A p \in Procs :
    /\ \A i \in 1..Len(calls[p]) :
         calls[p][i].op = "updateUser" => calls[p][i].providerId # "password"
    /\ \A i \in 1..Len(req[p].toLink) : req[p].toLink[i].providerId # "password"
    /\ pc[p] = "done" /\ result[p].linked =>
         Len(AttachCalls(p)) =
           Cardinality({i \in 1..Len(req[p].user.providerData) :
                          req[p].user.providerData[i].providerId # "password"})

\* a source holding a password record and a social record was merged: its
\* social record was passed to providerToLink
C16_Witness ==
  \E p \in Procs :
    /\ pc[p] = "done" /\ result[p].linked
    /\ hasPassword(req[p].user) /\ hasSocial(req[p].user)
    /\ Len(AttachCalls(p)) = 1
    /\ ~accounts[req[p].source].exists

\* the non-password identities (providerId, uid) of an account
SocialIdentities(user) ==
  {id \in Identities(user) : id[1] # "password"}

\* C17: after a merge in which every providerToLink call succeeded, the
\* target holds exactly the provider records it had plus all non-password
\* records of the source, and the source no longer exists.
C17_ProviderUnion ==
  \A p \in Procs :
    LET before == atStart[p] IN
    (/\ pc[p] = "done" /\ result[p].linked
     /\ \A i \in 1..Len(AttachCalls(p)) : AttachCalls(p)[i].ok)
    => /\ ~accounts[req[p].source].exists
       /\ accounts[req[p].target].exists
       /\ Identities(accounts[req[p].target])
            = Identities(before[req[p].target])
                \cup SocialIdentities(before[req[p].source])
       /\ Len(accounts[req[p].target].providerData)
            = Len(before[req[p].target].providerData)
                + Cardinality(SocialIdentities(before[req[p].source]))

\* a new Google account merged into a password account: one account with
\* the providers password and google.com
C17_Witness ==
  \E p \in Procs :
    /\ pc[p] = "done" /\ result[p].linked
    /\ atStart[p][req[p].source].providerData = <<Google1>>
    /\ atStart[p][req[p].target].providerData = <<PasswordRecord(E1)>>
    /\ ~accounts[req[p].source].exists
    /\ ProviderIds(accounts[req[p].target]) = {"password", "google.com"}
    /\ Len(accounts[req[p].target].providerData) = 2

\* the accounts whose effective email is the address, compared lower-cased
AccountsWithEmail(accts, email) ==
  {u \in Uids : /\ accts[u].exists
                /\ getEmailFromUser(accts[u]) # NoEmail
                /\ Lower(getEmailFromUser(accts[u])) = Lower(email)}

\* C18 as stated: whenever checkAndLinkAccounts returns linked or
\* needsVerification, exactly one account with the current account's
\* effective email remains, however many accounts shared it before.
C18_SingleAccountRemains ==
  \A p \in Procs :
    (pc[p] = "done" /\ (result[p].linked \/ result[p].needsVerification))
    => Cardinality(AccountsWithEmail(accounts, req[p].email)) = 1

\* C19: storeCode(e, c) overwrites whatever entry the lower-cased email had:
\* afterwards the entry is c with a fresh expiry, verifyCode accepts c and
\* refuses every other code (the one overwritten included), no other key
\* changes, and no entry is ever kept under a key that is not lower-cased.
C19_StoreOverwrites ==
  [][\A e \in Emails, c \in Codes :
       CallStoreCode(e, c) =>
         /\ codeStore'[Lower(e)] = [code |-> c, expiresAt |-> now + CODE_EXPIRY_MS]
         /\ \A k \in Keys \ {Lower(e)} : codeStore'[k] = codeStore[k]
         /\ verifyCode(codeStore', now', e, c).ok
         /\ \A c1 \in Codes \ {c} : ~verifyCode(codeStore', now', e, c1).ok
         /\ \A k \in Keys : k # Lower(k) => codeStore'[k] = NoCode]_vars

\* a code was stored over a different, unconsumed and unexpired one
C19_Witness ==
  /\ resp.op = "storeCode"
  /\ resp.prior # NoCode /\ resp.prior.code # resp.code
  /\ now <= resp.prior.expiresAt
  /\ codeStore[Lower(resp.email)].code = resp.code
  /\ consumed[Lower(resp.email)] = 0

\* C20: an entry stored at time t has expiresAt = t + 5 minutes; verifyCode
\* with the entry's code returns true at every time up to and including
\* expiresAt, and at every later time returns false and removes the entry.
C20_ExpiryFiveMinutes ==
  [][\A e \in Emails, c \in Codes :
       /\ CallStoreCode(e, c) =>
            codeStore'[Lower(e)].expiresAt = now + 5 * 60 * 1000
       /\ CallVerifyCode(e, c) =>
            LET stored == codeStore[Lower(e)] IN
            (stored # NoCode /\ stored.code = c) =>
              /\ now > stored.expiresAt =>
                   ~resp'.ok /\ codeStore'[Lower(e)] = NoCode
              /\ now <= stored.expiresAt =>
                   resp'.ok /\ codeStore'[Lower(e)] = NoCode]_vars

\* the right code was refused after its lifetime and its entry removed
C20_Witness ==
  /\ resp.op = "verifyCode" /\ ~resp.ok
  /\ resp.prior # NoCode /\ resp.prior.code = resp.code
  /\ now > resp.prior.expiresAt
  /\ codeStore[Lower(resp.email)] = NoCode

\* C21 as stated: a code that sendVerification issued for one spelling of an
\* address is accepted by verifyCode for every spelling that differs only in
\* letter case, and the account addPassword then changes is the account for
\* which sendVerification issued the code. (Stated for the case in which no
\* reconciliation request has run, so the accounts are those sendVerification
\* saw.)
C21_SameAccountForCode ==
  [][\A e \in Emails, c \in Codes, pw \in Passwords :
       ( /\ AddPassword(e, c, pw)
         /\ \A p \in Procs : pc[p] = "idle"
         /\ resp.op = "sendVerification" /\ resp.status = 200
         /\ Lower(resp.email) = Lower(e) /\ resp.code = c
         /\ now <= codeStore[Lower(e)].expiresAt )
       => LET issuedFor == findUserByEmail(accounts, resp.email, NoUid) IN
          /\ verifyCode(codeStore, now, e, c).ok
          /\ \A u \in Uids : accounts'[u] # accounts[u] => u = issuedFor]_vars

\* C22 as stated: findUserByEmail(email, excludeUid) never returns the
\* excluded account, and the account it returns has an effective email
\* equal to email, whichever of the two lookups found it.
C22_Original ==
  (resp.op = "findUserByEmail" /\ resp.value # NoUid)
  => /\ resp.value # resp.excludeUid
     /\ getEmailFromUser(accounts[resp.value]) = resp.email

\* C22 (amended): findUserByEmail(email, excludeUid) never returns the
\* excluded account; an account found by the enumeration has an effective
\* email equal to email, and an account found by the direct lookup has a
\* top-level email equal to email up to letter case.
C22_FoundAccountMatches ==
  (resp.op = "findUserByEmail" /\ resp.value # NoUid)
  => LET found == accounts[resp.value]
         direct == DirectHit(GetUserByEmail(accounts, resp.email), resp.excludeUid) IN
     /\ found.exists
     /\ resp.value # resp.excludeUid
     /\ direct => found.email # NoEmail /\ found.email = Lower(resp.email)
     /\ ~direct => getEmailFromUser(found) = resp.email

\* the direct lookup found the excluded account and the enumeration then
\* returned another account with the same email
C22_Witness ==
  /\ resp.op = "findUserByEmail"
  /\ resp.excludeUid # NoUid
  /\ GetUserByEmail(accounts, resp.email) = resp.excludeUid
  /\ resp.value # NoUid
  /\ accounts[resp.value].email = NoEmail

\* C23: findUserByEmail(email, excludeUid) answers not found only if no
\* account other than excludeUid has an effective email equal to email; an
\* account that has the email only on a provider record is found.
C23_NotFoundOnlyIfNone ==
  resp.op = "findUserByEmail"
  => /\ resp.value = NoUid =>
          \A u \in Uids \ {resp.excludeUid} :
            accounts[u].exists => getEmailFromUser(accounts[u]) # resp.email
     /\ (\E u \in Uids \ {resp.excludeUid} :
           /\ accounts[u].exists /\ accounts[u].email = NoEmail
           /\ getEmailFromUser(accounts[u]) = resp.email)
        => resp.value # NoUid

\* no account has the email as its top-level email and the enumeration
\* found the account that has it on its second provider record
C23_Witness ==
  /\ resp.op = "findUserByEmail"
  /\ GetUserByEmail(accounts, resp.email) = NoUid
  /\ resp.value # NoUid
  /\ accounts[resp.value].providerData = <<Google2, Facebook2>>
  /\ resp.email = E1U

\* C24: getEmailFromUser returns the top-level email when there is one,
\* otherwise the email of the first provider record that has one, otherwise
\* nothing, whatever the order of the provider records.
C24_EffectiveEmail ==
  resp.op = "getEmailFromUser"
  => LET user == resp.user
         pd == user.providerData
         withEmail == {i \in 1..Len(pd) : pd[i].email # NoEmail} IN
     IF user.email # NoEmail THEN resp.value = user.email
     ELSE IF withEmail = {} THEN resp.value = NoEmail
     ELSE \E i \in withEmail :
            /\ \A j \in withEmail : i <= j
            /\ resp.value = pd[i].email

\* no top-level email, a first record without email and two later records
\* with different emails: the second record's email is returned
C24_Witness ==
  /\ resp.op = "getEmailFromUser"
  /\ resp.user.email = NoEmail
  /\ resp.user.providerData = <<Google2, Microsoft2, Facebook2>>
  /\ resp.value = E2

\* C25 as stated: every handler that looks an account up by email uses the
\* effective email, so an account that has the email only on a provider
\* record is found like one with a top-level email: no send-verification or
\* add-password request is answered 404 while an account has the requested
\* address as its effective email.
C25_EffectiveEmailEverywhere ==
  (resp.op \in {"sendVerification", "addPassword", "/send-verification", "/add-password"}
   /\ resp.status = 404)
  => \A u \in Uids :
       accounts[u].exists => getEmailFromUser(accounts[u]) # resp.email

\* C26: after any sequence of syncUserToDatabase calls interleaved with
\* merges the profile table holds one row per email, and a call for an
\* email whose row belongs to another uid changes that row's firebaseUid in
\* place: the table has the same number of rows afterwards and the row of
\* the email carries the caller's uid.
C26_OneRowPerEmail ==
  [][/\ \A r1, r2 \in users' : r1.email = r2.email => r1 = r2
     /\ \A u \in Uids, e \in Emails \cup {NoEmail} :
          SyncUser(u, e) =>
            LET userEmail == getEmailFromFirebase(accounts, u, e) IN
            (\E r \in users : r.email = userEmail /\ r.firebaseUid # u)
            => /\ Cardinality(users') = Cardinality(users)
               /\ Row(u, userEmail) \in users'
               /\ \A r \in users : r.email # userEmail => r \in users']_vars

\* the row of a social account that was merged away now carries the uid of
\* the password account it was merged into
C26_Witness ==
  /\ resp.op = "syncUserToDatabase" /\ resp.outcome = "updated"
  /\ \E p \in Procs :
       /\ pc[p] = "done" /\ result[p].linked
       /\ resp.prior = {Row(req[p].source, resp.email)}
       /\ resp.uid = req[p].target
       /\ ~accounts[req[p].source].exists
  /\ users = {Row(resp.uid, resp.email)}

\* C27: sendVerification answers 404 when no account has the address and
\* 409 when the account found has a password provider; in both cases the
\* code store is left as it was (no code stored, none overwritten) and no
\* code is mailed. Stated for the controller and for the router's handler.
C27_RefusedSendVerification ==
  [][\A e \in Emails :
       /\ SendVerification(e) =>
            LET found == findUserByEmail(accounts, e, NoUid) IN
            /\ AccountsWithEmail(accounts, e) = {} => resp'.status = 404
            /\ (found # NoUid /\ "password" \in ProviderIds(accounts[found]))
               => resp'.status = 409
            /\ resp'.status \in {404, 409} =>
                 codeStore' = codeStore /\ resp'.code = "none"
       /\ RouteSendVerification(e) =>
            LET found == GetUserByEmail(accounts, e) IN
            /\ AccountsWithEmail(accounts, e) = {} => resp'.status = 404
            /\ (found # NoUid /\ "password" \in ProviderIds(accounts[found]))
               => resp'.status = 409
            /\ resp'.status \in {404, 409} =>
                 codeStore' = codeStore /\ resp'.code = "none"]_vars

\* a request was answered 404 while an unexpired code, issued for another
\* spelling of the address, was in the store under the same key, and the
\* code is still there
C27_Witness ==
  /\ resp.op = "sendVerification" /\ resp.status = 404 /\ resp.code = "none"
  /\ codeStore[Lower(resp.email)] # NoCode
  /\ now <= codeStore[Lower(resp.email)].expiresAt
  /\ consumed[Lower(resp.email)] = 0

\* C28: addPassword with a code that is not the unexpired code issued for
\* the address answers 401 and changes no account; with the issued code,
\* before expiry, for a social-only account (as left by a reconciliation
\* that required verification) it answers 200 and the account keeps its
\* social provider records, gains the password provider and the password,
\* and has the address as its account-level email; no other account changes.
C28_AddPasswordAfterVerification ==
  [][\A e \in Emails, c \in Codes, pw \in Passwords :
       AddPassword(e, c, pw) =>
         LET acc == findUserByEmail(accounts, e, NoUid)
             stored == codeStore[Lower(e)]
             issued == /\ stored # NoCode /\ stored.code = c
                       /\ now <= stored.expiresAt IN
         /\ ~issued => resp'.status = 401 /\ accounts' = accounts
         /\ (issued /\ acc # NoUid /\ SocialOnly(accounts[acc]))
            => /\ resp'.status = 200
               /\ accounts'[acc].providerData =
                    Append(accounts[acc].providerData, PasswordRecord(Lower(e)))
               /\ accounts'[acc].password = pw
               /\ accounts'[acc].email = Lower(e)
               /\ \A u \in Uids \ {acc} : accounts'[u] = accounts[u]]_vars

\* a reconciliation deleted the password account and required verification
\* for the social-only account; the code sent was then used and that
\* account now has its social provider, the password and the email
C28_Witness ==
  \E p \in Procs :
    /\ pc[p] = "done" /\ result[p].needsVerification
    /\ ~accounts[req[p].uid].exists
    /\ atStart[p][req[p].dup.uid].email = NoEmail
    /\ resp.op = "addPassword" /\ resp.status = 200
    /\ LET acc == accounts[req[p].dup.uid] IN
       /\ acc.providerData =
            Append(atStart[p][req[p].dup.uid].providerData, PasswordRecord(Lower(resp.email)))
       /\ acc.email = Lower(resp.email)
       /\ acc.password \in Passwords

\* the field of the provider's answer that identifies the subject
SubjectOf(providerId, r) ==
  IF providerId \in {"google.com", "apple.com"} THEN r.sub ELSE r.id

\* C29 as stated: verifyProviderToken fails whenever the upstream call
\* fails or the answer has no subject identifier, and never returns a
\* record without providerUid, for every provider kind.
C29_ProviderUidPresent ==
  resp.op = "verifyProviderToken"
  => /\ (~resp.response.ok \/ SubjectOf(resp.providerId, resp.response) = NoSubject)
        => resp.value.threw
     /\ ~resp.value.threw => resp.value.providerUid # NoSubject

\* the entries of a store that verifyCode can still accept at time t
Live(store, t) ==
  [k \in Keys |->
     IF store[k] # NoCode /\ t <= store[k].expiresAt THEN store[k] ELSE NoCode]

\* the instants from now to the end of the clock
Later == {now + i * TickMs : i \in 0..MaxTicks}

\* C30: a sweep removes only entries whose expiresAt is in the past and no
\* unexpired entry, so it is invisible to verifyCode: at the instant of the
\* sweep and at every later instant, verifyCode answers the same for every
\* email and code on the swept store as on the store left alone, and the
\* two stores it leaves (and those storeCode leaves) hold the same
\* acceptable entries.
C30_SweepInvisible ==
  [][Sweep =>
       /\ \A k \in Keys :
            codeStore'[k] # codeStore[k]
            => /\ codeStore[k] # NoCode /\ now > codeStore[k].expiresAt
               /\ codeStore'[k] = NoCode
       /\ \A t \in Later, e \in Emails, c \in Codes :
            LET swept == verifyCode(codeStore', t, e, c)
                alone == verifyCode(codeStore, t, e, c) IN
            /\ Live(codeStore', t) = Live(codeStore, t)
            /\ swept.ok = alone.ok
            /\ Live(swept.store, t) = Live(alone.store, t)
            /\ Live(storeCode(codeStore', t, e, c), t)
                 = Live(storeCode(codeStore, t, e, c), t)]_vars

\* the entry of the last storeCode call expired and the sweep removed it
\* (no verifyCode or storeCode call came after it)
C30_Witness ==
  /\ resp.op = "storeCode"
  /\ codeStore[Lower(resp.email)] = NoCode
  /\ now > CODE_EXPIRY_MS

\* the entries storeCode can place in the store
Entries ==
  [code : Codes, expiresAt : {i * TickMs + CODE_EXPIRY_MS : i \in 0..MaxTicks}]

\* C31: with a sweep that keeps running and a clock that keeps advancing,
\* every entry placed in the store is eventually gone from it (consumed,
\* superseded, deleted by a verifyCode after expiry, or swept): no entry
\* stays under its key forever.
C31_EntryEventuallyDestroyed ==
  \A k \in Keys : \A v \in Entries : (codeStore[k] = v) ~> (codeStore[k] # v)

\* a code was stored and never presented to verifyCode, and at the end of
\* the clock the store is empty
C31_Witness ==
  /\ resp.op = "storeCode"
  /\ now = MaxTicks * TickMs
  /\ \A k \in Keys : codeStore[k] = NoCode

\* C32: when no email is passed to syncUserToDatabase and the account has
\* none at top level or on any provider record, or auth.getUser fails
\* because the account is gone, the call writes nothing to the profile
\* table and returns the 'User synced without email' result.
C32_NoEmailNoWrite ==
  [][\A u \in Uids :
       SyncUser(u, NoEmail) =>
         LET user == accounts[u] IN
         (\/ ~user.exists
          \/ /\ user.email = NoEmail
             /\ \A i \in 1..Len(user.providerData) :
                  user.providerData[i].email = NoEmail)
         => users' = users /\ resp'.outcome = "emailMissing"]_vars

\* a sync for the account a merge deleted, with no email in the token: the
\* row written before is left as it was
C32_Witness ==
  /\ resp.op = "syncUserToDatabase" /\ resp.outcome = "emailMissing"
  /\ ~accounts[resp.uid].exists
  /\ \E p \in Procs : pc[p] = "done" /\ result[p].linked /\ req[p].source = resp.uid
  /\ users # {}

\* C33 as stated: two concurrent checkAndLinkAccounts requests, one for
\* each of two social-only accounts that share an email, never delete both
\* accounts: when both have finished, each having found the other account
\* as the duplicate, at least one of the two accounts exists, and a custom
\* token returned names an account that exists.
C33_OppositeRequestsKeepOne ==
  \A a, b \in Uids :
    ( /\ a # b
      /\ pc[1] = "done" /\ pc[2] = "done"
      /\ req[1].uid = a /\ req[2].uid = b
      /\ req[1].dup.uid = b /\ req[2].dup.uid = a
      /\ \A p \in Procs :
           /\ SocialOnly(atStart[p][a]) /\ SocialOnly(atStart[p][b])
           /\ SharesEmail(atStart[p][a], atStart[p][b]) )
    => /\ accounts[a].exists \/ accounts[b].exists
       /\ \A p \in Procs :
            result[p].customToken # NoToken => accounts[result[p].customToken].exists

\* C34 as stated: addPassword sets a password only on an account that has
\* no password provider at the moment of the update, whatever happened to
\* the accounts between the issue of the code and its use.
C34_NoPasswordOverwritten ==
  [][\A e \in Emails, c \in Codes, pw \in Passwords :
       AddPassword(e, c, pw) =>
         \A u \in Uids :
           accounts'[u] # accounts[u] => ~hasPassword(accounts[u])]_vars

\* C35 as stated: the account checkAndLinkAccounts deletes when it answers
\* needsVerification held only a password provider record: it had no
\* social provider record, so none is lost.
C35_DeletedAccountPasswordOnly ==
  \A p \in Procs :
    (pc[p] = "done" /\ result[p].needsVerification /\ ~accounts[req[p].uid].exists)
    => ~hasSocial(atStart[p][req[p].uid])

\* C36 as stated: once a reconciliation has deleted one account of a pair
\* and finished, every syncUserToDatabase call, a late one with the deleted
\* account's uid and email included, leaves the profile row of its email
\* keyed by an account that exists, never by the deleted account.
C36_RowKeyedBySurvivor ==
  [][\A u \in Uids, e \in Emails \cup {NoEmail} :
       ( /\ SyncUser(u, e) \/ LateSyncUser(u, e)
         /\ \A p \in Procs : pc[p] \in {"idle", "done"}
         /\ \E p \in Procs :
              pc[p] = "done" /\ (result[p].linked \/ result[p].needsVerification) )
       => \A r \in users' :
            r.email = resp'.email => accounts[r.firebaseUid].exists]_vars

\* C37: verifyCode with a code other than the stored one, on an entry that
\* has not expired, returns false and leaves the whole store as it was
\* (same code, same expiresAt), so the stored code is still accepted
\* afterwards: the store does not count or limit wrong attempts.
C37_MismatchLeavesEntry ==
  [][\A e \in Emails, c \in Codes :
       CallVerifyCode(e, c) =>
         LET stored == codeStore[Lower(e)] IN
         (stored # NoCode /\ now <= stored.expiresAt /\ stored.code # c)
         => /\ ~resp'.ok
            /\ codeStore' = codeStore
            /\ verifyCode(codeStore', now', e, stored.code).ok]_vars

\* a wrong code was refused and the entry it was tried against is still in
\* the store, unexpired
C37_Witness ==
  /\ resp.op = "verifyCode" /\ ~resp.ok
  /\ resp.prior # NoCode /\ resp.prior.code # resp.code
  /\ now <= resp.prior.expiresAt
  /\ codeStore[Lower(resp.email)] = resp.prior

\* C38: addPassword consumes the code before it looks the account up and
\* updates it: when a request with the valid code then fails, because no
\* account is found (404) or because auth.updateUser rejects, the entry is
\* gone, no account was changed, and the same code is refused afterwards.
C38_CodeConsumedBeforeFailure ==
  [][\A e \in Emails, c \in Codes, pw \in Passwords :
       ( /\ AddPassword(e, c, pw) \/ AddPasswordFails(e, c, pw)
         /\ verifyCode(codeStore, now, e, c).ok
         /\ resp'.status # 200 )
       => /\ resp'.status \in {404, 500}
          /\ codeStore'[Lower(e)] = NoCode
          /\ accounts' = accounts
          /\ ~verifyCode(codeStore', now', e, c).ok]_vars

\* the valid code was presented for a spelling of the address no account
\* has: the request was answered 404, the code is used up and no password
\* was set
C38_Witness ==
  /\ resp.op = "addPassword" /\ resp.status = 404
  /\ consumed[Lower(resp.email)] = 1
  /\ codeStore[Lower(resp.email)] = NoCode
  /\ \A u \in Uids : accounts[u].password \notin Passwords

\* C39 as stated: syncUserToDatabase keeps the account id unique in the
\* profile table: no two rows carry the same firebaseUid, and no call ends
\* in a uniqueness conflict, because a row migrated to the caller's uid
\* never meets another row that already has that uid.
C39_UidStaysUnique ==
  /\ \A r1, r2 \in users : r1.firebaseUid = r2.firebaseUid => r1 = r2
  /\ resp.op = "syncUserToDatabase" => resp.outcome # "error"

====
